---- MODULE Spec2Model ----
(***************************************************************************)
(* Model of the omnigence-ai quotation application: the quotation sheet    *)
(* (QuotationSheet.jsx), the application shell (App.jsx), the chat box and *)
(* the AI service (ChatBox.jsx, aiService.js), the PDF export              *)
(* (pdfExport.js) and the backend's job creation.                          *)
(*                                                                         *)
(* Amounts are whole currency units.  A JavaScript string that holds an    *)
(* amount is a record [kind, num]: kind "plain" is the bare number         *)
(* ("100.00"), kind "mop" is the number behind the currency prefix         *)
(* ("MOP $ 100.00"), kind "empty" is ''.  A revision string "a.b" is the   *)
(* number of tenths 10a+b.                                                 *)
(***************************************************************************)
EXTENDS Integers, Sequences, FiniteSets, TLC

VARIABLES
    formData,               \* QuotationSheet: useState formData
    previousQuotationRef,   \* QuotationSheet: useRef of the last payload's triple
    quotationData,          \* App: useState quotationData (the sheet's data prop)
    lastSaved,              \* App: the last element of useState savedQuotations
    lastOp,                 \* history: the handler that ran last
    sameRun,                \* history: payloads received in a row with the triple of the first
    dom,                    \* the document: inline styles, replaced inputs, temporary style sheet
    exportPc,               \* handleDownloadPDF / exportWithLibrary: the await it stands at
    exportLocals,           \* exportWithLibrary: its local variables
    exportResult,           \* exportWithLibrary: the value returned last
    downloaded,             \* the file name given to pdf.save last
    alertShown,             \* whether the export in progress has shown an alert
    domBefore,              \* history: the document when exportWithLibrary was entered
    messages,               \* ChatBox: useState messages, each message by its kind
    inputValue,             \* ChatBox: useState inputValue
    isLoading,              \* ChatBox: useState isLoading
    sends,                  \* ChatBox: the calls of handleSend, each with the await it stands at
    lastGen,                \* history: the call of generateQuotation that ended in the last step
    lastRequest,            \* history: the request that ended in the last step
    jobs,                   \* backend: the stored job rows
    jobRequests,            \* backend: the create_job requests being processed
    month,                  \* backend: the month of the server's clock
    parseCase,              \* generateQuotation: the content parsed last, with and without fences
    currentSessionId,       \* main flow service: let currentSessionId
    flowRequest,            \* main flow service: the request awaiting its response
    flowResult,             \* main flow service: what the call that ended last returned or threw
    sessionUse,             \* history: the session ids sent since the last resetSession
    resets,                 \* history: the calls of resetSession
    store,                  \* localStorage: the array under the key 'quotations'
    now,                    \* the browser's clock: Date.now() in milliseconds
    storeResult,            \* history: the call on the local store made last and its value
    isOpen,                 \* QuotationSheet: signatureModal.isOpen, the modal's prop
    activeTab,              \* SignatureModal: useState activeTab
    uploadedImage,          \* SignatureModal: useState uploadedImage
    isProcessing,           \* SignatureModal: useState isProcessing
    isEmpty,                \* SignatureModal: useState isEmpty
    canvas,                 \* SignatureModal: the SignatureCanvas behind sigCanvas
    uploads,                \* SignatureModal: the uploads in progress, each with its await
    sigAlert,               \* history: the alert the modal showed in the last step
    lastUpload,             \* history: the upload that ended in the last step
    passed,                 \* history: the value the modal gave to onSave in the last step
    API_CONFIG,             \* AI service: const API_CONFIG = apiConfig.ai, once the module is loaded
    aiFetch,                \* AI service: the fetch sendMessageToAI awaits
    fetched,                \* history: the network requests sendMessageToAI issued
    aiResult,               \* history: what the call of sendMessageToAI in the last step did
    edits                   \* history: the hand edits made on the sheet

sheetVars == <<formData, previousQuotationRef, quotationData, lastSaved, lastOp, sameRun>>
exportVars == <<dom, exportPc, exportLocals, exportResult, downloaded, alertShown, domBefore>>
chatVars == <<messages, inputValue, isLoading, sends, lastGen, lastRequest>>
jobVars == <<jobs, jobRequests, month>>
flowVars == <<currentSessionId, flowRequest, flowResult, sessionUse, resets>>
storeVars == <<store, now, storeResult>>
sigVars == <<isOpen, activeTab, uploadedImage, isProcessing, isEmpty, canvas, uploads,
             sigAlert, lastUpload, passed>>
aiVars == <<API_CONFIG, aiFetch, fetched, aiResult>>
restVars == <<parseCase, flowVars, storeVars, sigVars, aiVars, edits>>
notSheetVars == <<exportVars, chatVars, jobVars, restVars>>
chatAndJobVars == <<chatVars, jobVars, restVars>>
vars == <<sheetVars, exportVars, chatVars, jobVars, restVars>>

\* ---------------------------------------------------------------- bounds
MaxItems == 2       \* items on the sheet
MaxQty == 2         \* quantity typed into an item
MaxPrice == 2       \* unit price typed into an item
MaxTenths == 22     \* revision shown, in tenths (2.2)
SheetTenths == 11   \* revision cap of the sheet specification
UlpSlack == 1       \* floating-point error of one operation, in 1/100 of a tenth
MaxSends == 2       \* messages sent from the chat box
MaxBudget == 1      \* number in the budget text
MaxTotal == 2       \* totalAmount of an AI reply
MaxJobs == 3        \* jobs created
MaxMonth == 2       \* months the server's clock passes through
MaxIndex == 2       \* index field of a create_job request
MaxBody == 4        \* characters between the braces of a JSON text
MaxSessionId == 3   \* session ids generateSessionId draws from
MaxResets == 2      \* calls of resetSession
MaxStored == 2      \* quotations in the local store
MaxClock == 1       \* milliseconds the browser's clock passes through
MaxTermLen == 1     \* characters of a search term
MaxUploads == 2     \* signature uploads in progress at once
MaxFetches == 3     \* network requests of sendMessageToAI
MaxMessages == 2    \* messages of the conversation handed to sendMessageToAI
MaxEdits == 2       \* hand edits made on the sheet between the payloads

Null == [null |-> TRUE]
NaN == -1

QuotationNumbers == {"Q1", "Q2"}
ClientNames == {"ACME", "acme"}
ProjectNames == {"Roof", "Wall"}
Descriptions == {"", "survey"}

\* ------------------------------------------------- JavaScript conversions
Plain(n) == [kind |-> "plain", num |-> n]
Mop(n) == [kind |-> "mop", num |-> n]
EmptyStr == [kind |-> "empty", num |-> 0]

\* parseFloat(s): a string that starts with "MOP $ " or is empty gives NaN
parseFloat(s) == IF s.kind = "plain" THEN s.num ELSE NaN

\* x || 0
OrZero(x) == IF x = NaN THEN 0 ELSE x

\* n.toFixed(2)
toFixed2(n) == Plain(n)

\* `MOP $ ${n.toFixed(2)}`
MopFixed2(n) == Mop(n)

\* value.replace(/[^\d.]/g, '')
extractNumber(s) == IF s.kind = "empty" THEN EmptyStr ELSE Plain(s.num)

RECURSIVE SumSeq(_)
SumSeq(s) == IF s = <<>> THEN 0 ELSE Head(s) + SumSeq(Tail(s))

\* items.reduce((sum, item) => sum + (parseFloat(item.totalPrice) || 0), 0)
SumTotalPrice(items) ==
    SumSeq([i \in 1..Len(items) |-> OrZero(parseFloat(items[i].totalPrice))])

\* parseFloat of a revision string, with the rounding error of the double
RevParse(tenths, e) == tenths * 100 + e
\* x + 0.1 in doubles
RevAddTenth(x, e) == x + 100 + e
\* a toFixed(1) that cuts the digits off instead of rounding
toFixed1_Truncating(x) == x \div 100

\* x.toFixed(1): the nearest tenth
toFixed1(x) == (x + 50) \div 100

FpErr == (0 - UlpSlack)..UlpSlack

\* ------------------------------------------------------- generateQuotation
\* The parsed AI reply: companyName, projectName, quotationNumber, items with
\* numeric quantity, unitPrice, totalPrice, and totalAmount.
ReplyItem(q, p, t) == [quantity |-> q, unitPrice |-> p, totalPrice |-> t, itemName |-> "survey"]

\* finalData.items: item.quantity || 1, `MOP $ ${parseFloat(x).toFixed(2)}`
FinalItems(items) ==
    [i \in 1..Len(items) |->
        [sequence |-> i,
         project |-> items[i].itemName,
         quantity |-> IF items[i].quantity = 0 THEN 1 ELSE items[i].quantity,
         unitPrice |-> MopFixed2(items[i].unitPrice),
         totalPrice |-> MopFixed2(items[i].totalPrice)]]

FinalData(reply) ==
    [quotationNumber |-> reply.quotationNumber,
     clientName |-> reply.companyName,
     projectName |-> reply.projectName,
     items |-> FinalItems(reply.items),
     totalAmount |-> MopFixed2(reply.totalAmount)]

\* The text generateQuotation gets from the AI: not JSON, or JSON with a
\* companyName ('' when absent), items (possibly none) and a totalAmount
\* string ('' when absent).
BadJson ==
    [parseable |-> FALSE, quotationNumber |-> "", companyName |-> "", projectName |-> "",
     items |-> <<>>, totalAmount |-> EmptyStr]

RawReply(number, company, project, items, total) ==
    [parseable |-> TRUE, quotationNumber |-> number, companyName |-> company,
     projectName |-> project, items |-> items, totalAmount |-> total]

\* requiredFields.filter(field => !quotationData[field]); an empty array is
\* truthy
missingFields(raw) ==
    {f \in {"companyName", "projectName", "totalAmount"} :
        \/ f = "companyName" /\ raw.companyName = ""
        \/ f = "projectName" /\ raw.projectName = ""
        \/ f = "totalAmount" /\ raw.totalAmount.kind = "empty"}

\* generateQuotation: budget > 0 && totalAmount > budget
BudgetExceeded(budgetText, totalText) ==
    LET budget == OrZero(parseFloat(budgetText))
        totalAmount == OrZero(parseFloat(totalText))
    IN  budget > 0 /\ totalAmount > budget

Thrown(error) == [ok |-> FALSE, error |-> error, data |-> Null]

Returned(data) == [ok |-> TRUE, error |-> "", data |-> data]

\* a generateQuotation without the check of the items
generateQuotation_NoItemsCheck(budgetText, raw) ==
    IF ~raw.parseable THEN Thrown("parse")
    ELSE IF missingFields(raw) # {} THEN Thrown("missing")
    ELSE IF BudgetExceeded(budgetText, raw.totalAmount) THEN Thrown("budget")
    ELSE Returned(FinalData([raw EXCEPT !.totalAmount = OrZero(parseFloat(raw.totalAmount))]))

\* generateQuotation after sendMessageToAI resolved: JSON.parse, required
\* fields, items, budget, finalData
generateQuotation(budgetText, raw) ==
    IF ~raw.parseable THEN Thrown("parse")
    ELSE IF missingFields(raw) # {} THEN Thrown("missing")
    ELSE IF Len(raw.items) = 0 THEN Thrown("noItems")
    ELSE IF BudgetExceeded(budgetText, raw.totalAmount) THEN Thrown("budget")
    ELSE Returned(FinalData([raw EXCEPT !.totalAmount = OrZero(parseFloat(raw.totalAmount))]))

\* ------------------------------------------- generateQuotation: fences
\* A text is a sequence of characters: a backtick, the word json, a white
\* space, the two braces and one other character.  The text {body} stands
\* for a JSON object whose value is the body.
Backtick == "backtick"
Fence == <<Backtick, Backtick, Backtick>>
BodyChars == {Backtick, "json", " ", "a"}

StartsWith(t, prefix) ==
    Len(t) >= Len(prefix) /\ SubSeq(t, 1, Len(prefix)) = prefix

RECURSIVE DropSpaces(_)
\* the \s* of the two patterns
DropSpaces(t) == IF t # <<>> /\ Head(t) = " " THEN DropSpaces(Tail(t)) ELSE t

RECURSIVE DropSpacesEnd(_)
DropSpacesEnd(t) ==
    IF t # <<>> /\ t[Len(t)] = " " THEN DropSpacesEnd(SubSeq(t, 1, Len(t) - 1)) ELSE t

\* aiResponse.content.trim()
trimText(t) == DropSpacesEnd(DropSpaces(t))

RECURSIVE stripJsonFence(_)
\* the first replace: three backticks and json, then any white space, globally
stripJsonFence(t) ==
    IF t = <<>> THEN <<>>
    ELSE IF StartsWith(t, Fence \o <<"json">>)
         THEN stripJsonFence(DropSpaces(SubSeq(t, 5, Len(t))))
         ELSE <<Head(t)>> \o stripJsonFence(Tail(t))

\* a replace without the g flag: the first fence only
stripFence_First(t) ==
    IF \E k \in 1..Len(t) : StartsWith(SubSeq(t, k, Len(t)), Fence)
    THEN LET k == CHOOSE j \in 1..Len(t) :
                    /\ StartsWith(SubSeq(t, j, Len(t)), Fence)
                    /\ \A h \in 1..(j - 1) : ~StartsWith(SubSeq(t, h, Len(t)), Fence)
         IN  SubSeq(t, 1, k - 1) \o DropSpaces(SubSeq(t, k + 3, Len(t)))
    ELSE t

RECURSIVE stripFence(_)
\* the second replace: three backticks, then any white space, globally
stripFence(t) ==
    IF t = <<>> THEN <<>>
    ELSE IF StartsWith(t, Fence)
         THEN stripFence(DropSpaces(SubSeq(t, 4, Len(t))))
         ELSE <<Head(t)>> \o stripFence(Tail(t))

\* JSON.parse: white space around the value is skipped; the value is an
\* object from the opening to the closing brace
JSONparse(t) ==
    LET u == trimText(t)
    IN  IF /\ Len(u) >= 2
           /\ u[1] = "{"
           /\ u[Len(u)] = "}"
           /\ \A k \in 2..(Len(u) - 1) : u[k] \notin {"{", "}"}
        THEN [ok |-> TRUE, object |-> SubSeq(u, 2, Len(u) - 1)]
        ELSE [ok |-> FALSE, object |-> <<>>]

\* generateQuotation: trim, the two replacements, JSON.parse
parseContent(content) == JSONparse(stripFence(stripJsonFence(trimText(content))))

RECURSIVE Texts(_)
\* the bodies of up to n characters
Texts(n) ==
    IF n = 0 THEN {<<>>}
    ELSE LET shorter == Texts(n - 1)
         IN  shorter \cup {Append(t, c) : t \in shorter, c \in BodyChars}

\* the object's text in fences, with or without json behind the opening
\* fence, with or without line breaks
Fenced(lang, break, text) == Fence \o lang \o break \o text \o break \o Fence

\* one call of generateQuotation parses its reply; the model parses the
\* reply's object without the fences next to it
parseReply(lang, break, body) ==
    LET text == <<"{">> \o body \o <<"}">>
    IN  parseCase' = [content |-> Fenced(lang, break, text),
                      body |-> body,
                      fenced |-> parseContent(Fenced(lang, break, text)),
                      plain |-> parseContent(text)]

\* ------------------------------------------------------------ App.jsx
\* handleQuotationSave: setSavedQuotations([...savedQuotations, data]).  No
\* code reads the array (SearchBar ignores its props), so the model keeps
\* the element appended last.
handleQuotationSave(saved, data) == data

\* ------------------------------------------------------ QuotationSheet.jsx
InitFormData ==
    [quotationNumber |-> "INV-01-JCE-YY-NO-VER",
     quotationVersion |-> 10,
     clientName |-> "",
     projectName |-> "",
     items |-> <<>>,
     totalAmount |-> EmptyStr,
     managerSignature |-> Null,
     managerSignDate |-> Null,
     technicianSignature |-> Null,
     technicianSignDate |-> Null]

Triple(d) == [quotationNumber |-> d.quotationNumber,
              clientName |-> d.clientName,
              projectName |-> d.projectName]

\* an isNewQuotation that forgets the project name
isNewQuotation_NoProject(data, prev) ==
    \/ data.quotationNumber # prev.quotationNumber
    \/ data.clientName # prev.clientName

\* useEffect on [data]: isNewQuotation
isNewQuotation(data, prev) ==
    \/ data.quotationNumber # prev.quotationNumber
    \/ data.clientName # prev.clientName
    \/ data.projectName # prev.projectName

\* useEffect on [data]: newVersion
newVersion(data, prev, version, e1, e2) ==
    IF ~isNewQuotation(data, prev)
    THEN toFixed1(RevAddTenth(RevParse(version, e1), e2))
    ELSE 10

\* useEffect on [data]: setFormData({...formData, ...data, quotationVersion})
\* and previousQuotationRef.current = the payload's triple
DataEffect(data, version) ==
    /\ formData' = [formData EXCEPT
            !.quotationNumber = data.quotationNumber,
            !.clientName = data.clientName,
            !.projectName = data.projectName,
            !.items = data.items,
            !.totalAmount = data.totalAmount,
            !.quotationVersion = version]
    /\ previousQuotationRef' = Triple(data)

\* App.handleQuotationGenerated(data): setQuotationData(data); the sheet's
\* effect then runs with the new data prop
handleQuotationGenerated(data, cap) ==
    /\ formData.quotationVersion < cap
    /\ quotationData' = data
    /\ \E version \in { newVersion(data, previousQuotationRef, formData.quotationVersion, e1, e2) :
                            e1 \in FpErr, e2 \in FpErr } : DataEffect(data, version)
    /\ lastOp' = [op |-> "data", index |-> 0, field |-> ""]
    /\ sameRun' = IF quotationData # Null /\ Triple(quotationData) = Triple(data)
                  THEN sameRun + 1 ELSE 0
    /\ UNCHANGED lastSaved

\* the line total handleItemChange writes when quantity or unitPrice changes
LineTotal(item) ==
    toFixed2(OrZero(parseFloat(Plain(item.quantity))) * OrZero(parseFloat(item.unitPrice)))

\* handleItemChange: newItems
ChangedItems(items, index, field, value) ==
    LET edited == [items[index] EXCEPT ![field] = value]
    IN  [items EXCEPT ![index] =
            IF field \in {"quantity", "unitPrice"}
            THEN [edited EXCEPT !.totalPrice = LineTotal(edited)]
            ELSE edited]

handleItemChange(index, field, value) ==
    /\ index \in 1..Len(formData.items)
    /\ LET newItems == ChangedItems(formData.items, index, field, value)
           updatedFormData == [formData EXCEPT
                !.items = newItems,
                !.totalAmount = MopFixed2(SumTotalPrice(newItems))]
       IN  /\ formData' = updatedFormData
           /\ lastSaved' = handleQuotationSave(lastSaved, updatedFormData)
    /\ lastOp' = [op |-> "handleItemChange", index |-> index, field |-> field]
    /\ UNCHANGED <<previousQuotationRef, quotationData, sameRun>>

\* handleAddItem, with the updateTotalAmount(newItems) it ends with
handleAddItem ==
    /\ Len(formData.items) < MaxItems
    /\ LET newItem == [sequence |-> Len(formData.items) + 1,
                       project |-> "",
                       quantity |-> 1,
                       unitPrice |-> Plain(0),
                       totalPrice |-> Plain(0)]
           newItems == Append(formData.items, newItem)
       IN  formData' = [formData EXCEPT
                !.items = newItems,
                !.totalAmount = MopFixed2(SumTotalPrice(newItems))]
    /\ lastOp' = [op |-> "handleAddItem", index |-> Len(formData.items) + 1, field |-> ""]
    /\ UNCHANGED <<previousQuotationRef, quotationData, lastSaved, sameRun>>

\* items.filter((_, i) => i !== index)
RemoveAt(items, index) ==
    [i \in 1..(Len(items) - 1) |-> IF i < index THEN items[i] ELSE items[i + 1]]

\* a map that leaves the sequence numbers as they are
Reorder_Keeps(items) == items

\* newItems.map((item, i) => ({...item, sequence: i + 1}))
Reorder(items) == [i \in 1..Len(items) |-> [items[i] EXCEPT !.sequence = i]]

\* handleDeleteItem, with the updateTotalAmount(reorderedItems) it ends with
handleDeleteItem(index) ==
    /\ index \in 1..Len(formData.items)
    /\ IF Len(formData.items) <= 1
       THEN UNCHANGED formData
       ELSE LET reorderedItems == Reorder(RemoveAt(formData.items, index))
            IN  formData' = [formData EXCEPT
                    !.items = reorderedItems,
                    !.totalAmount = MopFixed2(SumTotalPrice(reorderedItems))]
    /\ lastOp' = [op |-> "handleDeleteItem", index |-> index, field |-> ""]
    /\ UNCHANGED <<previousQuotationRef, quotationData, lastSaved, sameRun>>

\* header inputs: setFormData({...formData, [field]: e.target.value})
handleHeaderChange(field, value) ==
    /\ formData' = [formData EXCEPT ![field] = value]
    /\ lastOp' = [op |-> "header", index |-> 0, field |-> field]
    /\ UNCHANGED <<previousQuotationRef, quotationData, lastSaved, sameRun>>

\* the signatures the modal hands to onSave, with new Date().toLocaleDateString
SignatureTypes == {"manager", "technician"}
SignaturePayloads ==
    { [signature |-> [by |-> "canvas", content |-> "drawn"], date |-> [date |-> "today"]] }

\* the fields a signature of the type is kept in
SignatureFields(type) ==
    IF type = "manager"
    THEN [signature |-> "managerSignature", date |-> "managerSignDate"]
    ELSE [signature |-> "technicianSignature", date |-> "technicianSignDate"]

\* a handleSaveSignature that starts from the sheet's first form data
handleSaveSignature_FromInitial(type, payload) ==
    /\ LET updatedFormData == [InitFormData EXCEPT
                ![SignatureFields(type).signature] = payload.signature,
                ![SignatureFields(type).date] = payload.date]
       IN  /\ formData' = updatedFormData
           /\ lastSaved' = handleQuotationSave(lastSaved, updatedFormData)
    /\ lastOp' = [op |-> "handleSaveSignature", index |-> 0, field |-> type]
    /\ UNCHANGED <<previousQuotationRef, quotationData, sameRun>>

\* handleSaveSignature({signature, date}) of the modal opened for
\* signatureModal.type: the two fields of the type are set, onSave is called
handleSaveSignature(type, payload) ==
    /\ LET updatedFormData == [formData EXCEPT
                ![SignatureFields(type).signature] = payload.signature,
                ![SignatureFields(type).date] = payload.date]
       IN  /\ formData' = updatedFormData
           /\ lastSaved' = handleQuotationSave(lastSaved, updatedFormData)
    /\ lastOp' = [op |-> "handleSaveSignature", index |-> 0, field |-> type]
    /\ UNCHANGED <<previousQuotationRef, quotationData, sameRun>>

\* handleClearSignature(type): the two fields of the type become null,
\* onSave is called
handleClearSignature(type) ==
    /\ LET updatedFormData == [formData EXCEPT
                ![SignatureFields(type).signature] = Null,
                ![SignatureFields(type).date] = Null]
       IN  /\ formData' = updatedFormData
           /\ lastSaved' = handleQuotationSave(lastSaved, updatedFormData)
    /\ lastOp' = [op |-> "handleClearSignature", index |-> 0, field |-> type]
    /\ UNCHANGED <<previousQuotationRef, quotationData, sameRun>>

\* ------------------------------------------------------------ pdfExport.js
\* the inline style properties exportWithLibrary saves in originalStyle
SavedStyleProps ==
    {"position", "left", "top", "width", "maxWidth", "minHeight", "margin",
     "padding", "transform", "zIndex", "background", "boxSizing", "fontSize"}

\* the inline style properties exportWithLibrary assigns
AssignedStyleProps == SavedStyleProps \cup {"fontFamily"}

\* An inline style value: "" is unset, "pdf" is the value the export assigns.
InitDom ==
    [style |-> [p \in AssignedStyleProps |-> ""],
     hideInPdf |-> "",
     leftPanel |-> "",
     downloadContainer |-> "",
     inputs |-> "input",
     tempStyle |-> FALSE]

InitExportLocals ==
    [originalStyle |-> <<>>,
     hiddenElements |-> <<>>,
     leftPanelDisplay |-> "",
     inputReplacements |-> FALSE,
     filename |-> Null]

Today == "today"

\* exportQuotationPDF: the file name
FileName(number, client) ==
    [quotationNumber |-> IF number = "" THEN "quotation" ELSE number,
     clientName |-> IF client = "" THEN "client" ELSE client,
     date |-> Today]

\* exportWithLibrary up to its first await: save and assign the styles,
\* hide the hide-in-pdf elements, the chat panel and the download button
ExportPrepare(d, filename) ==
    LET hide == d.hideInPdf # "none"
        hidePanel == d.leftPanel # "none"
    IN  [dom |-> [d EXCEPT
                !.style = [p \in AssignedStyleProps |-> "pdf"],
                !.hideInPdf = "none",
                !.leftPanel = "none",
                !.downloadContainer = "none"],
         locals |-> [originalStyle |-> [p \in SavedStyleProps |-> d.style[p]],
                     hiddenElements |-> IF hide THEN <<d.hideInPdf>> ELSE <<>>,
                     leftPanelDisplay |-> IF hidePanel THEN d.leftPanel ELSE "",
                     inputReplacements |-> FALSE,
                     filename |-> filename]]

\* exportWithLibrary: the finally block
ExportRestore(d, locals) ==
    [d EXCEPT
        !.tempStyle = FALSE,
        !.inputs = IF locals.inputReplacements THEN "input" ELSE d.inputs,
        !.style = [p \in AssignedStyleProps |->
                    IF p \in DOMAIN locals.originalStyle
                    THEN locals.originalStyle[p]
                    ELSE d.style[p]],
        !.hideInPdf = IF locals.hiddenElements # <<>>
                      THEN locals.hiddenElements[1] ELSE d.hideInPdf,
        !.leftPanel = locals.leftPanelDisplay,
        !.downloadContainer = ""]

\* App.handleDownloadPDF without a quotation: alert and return
handleDownloadPDF_NoData ==
    /\ UNCHANGED chatAndJobVars
    /\ exportPc = "idle"
    /\ quotationData = Null
    /\ lastOp' = [op |-> "exportRefused", index |-> 0, field |-> ""]
    /\ UNCHANGED <<formData, previousQuotationRef, quotationData, lastSaved, sameRun>>
    /\ UNCHANGED exportVars

\* App.handleDownloadPDF: hide the hide-in-pdf elements, exportQuotationPDF
\* builds the file name, exportWithLibrary runs up to its first await
handleDownloadPDF ==
    /\ UNCHANGED chatAndJobVars
    /\ exportPc = "idle"
    /\ quotationData # Null
    /\ LET hidden == [dom EXCEPT !.hideInPdf = "none"]
           filename == FileName(quotationData.quotationNumber, quotationData.clientName)
           prepared == ExportPrepare(hidden, filename)
       IN  /\ domBefore' = hidden
           /\ dom' = prepared.dom
           /\ exportLocals' = prepared.locals
    /\ exportPc' = "await1"
    /\ alertShown' = FALSE
    /\ lastOp' = [op |-> "exportStarted", index |-> 0, field |-> ""]
    /\ UNCHANGED <<formData, previousQuotationRef, quotationData, lastSaved, sameRun>>
    /\ UNCHANGED <<exportResult, downloaded>>

\* exportWithLibrary after the first await: the inputs become divs
ExportReplaceInputs ==
    /\ UNCHANGED chatAndJobVars
    /\ exportPc = "await1"
    /\ dom' = [dom EXCEPT !.inputs = "div"]
    /\ exportLocals' = [exportLocals EXCEPT !.inputReplacements = TRUE]
    /\ exportPc' = "await2"
    /\ UNCHANGED sheetVars
    /\ UNCHANGED <<exportResult, downloaded, alertShown, domBefore>>

\* exportWithLibrary: catch (alert, return false) and finally
ExportFails ==
    /\ UNCHANGED chatAndJobVars
    /\ alertShown' = TRUE
    /\ exportResult' = FALSE
    /\ dom' = ExportRestore(dom, exportLocals)
    /\ exportPc' = "returned"
    /\ UNCHANGED sheetVars
    /\ UNCHANGED <<exportLocals, downloaded, domBefore>>

\* exportWithLibrary after the second await: import html2canvas and jsPDF,
\* append the temporary style sheet
ExportImport ==
    /\ UNCHANGED chatAndJobVars
    /\ exportPc = "await2"
    /\ dom' = [dom EXCEPT !.tempStyle = TRUE]
    /\ exportPc' = "await3"
    /\ UNCHANGED sheetVars
    /\ UNCHANGED <<exportLocals, exportResult, downloaded, alertShown, domBefore>>

\* the dynamic import rejects
ExportImportThrows ==
    /\ exportPc = "await2"
    /\ ExportFails

\* exportWithLibrary after the third await: html2canvas renders, the
\* temporary style sheet is removed, pdf.save(filename), return true, finally
ExportRender ==
    /\ UNCHANGED chatAndJobVars
    /\ exportPc = "await3"
    /\ downloaded' = exportLocals.filename
    /\ exportResult' = TRUE
    /\ dom' = ExportRestore([dom EXCEPT !.tempStyle = FALSE], exportLocals)
    /\ exportPc' = "returned"
    /\ UNCHANGED sheetVars
    /\ UNCHANGED <<exportLocals, alertShown, domBefore>>

\* html2canvas or jsPDF throws
ExportRenderThrows ==
    /\ exportPc = "await3"
    /\ ExportFails

\* an ending of handleDownloadPDF that hands the quotation back to the sheet
\* as a fresh object instead of appending it to savedQuotations
ExportFinish_Regenerates ==
    /\ UNCHANGED chatAndJobVars
    /\ exportPc = "returned"
    /\ IF exportResult
       THEN handleQuotationGenerated(quotationData, MaxTenths)
       ELSE /\ lastOp' = [op |-> "exportFinished", index |-> 0, field |-> ""]
            /\ UNCHANGED <<formData, previousQuotationRef, quotationData, lastSaved, sameRun>>
    /\ dom' = [dom EXCEPT !.hideInPdf = ""]
    /\ exportPc' = "idle"
    /\ UNCHANGED <<exportLocals, exportResult, downloaded, alertShown, domBefore>>

\* App.handleDownloadPDF after exportQuotationPDF returned: on success
\* handleQuotationSave(quotationData); finally show the hide-in-pdf elements
ExportFinish ==
    /\ UNCHANGED chatAndJobVars
    /\ exportPc = "returned"
    /\ lastSaved' = IF exportResult
                    THEN handleQuotationSave(lastSaved, quotationData)
                    ELSE lastSaved
    /\ dom' = [dom EXCEPT !.hideInPdf = ""]
    /\ exportPc' = "idle"
    /\ lastOp' = [op |-> "exportFinished", index |-> 0, field |-> ""]
    /\ UNCHANGED <<formData, previousQuotationRef, quotationData, sameRun>>
    /\ UNCHANGED <<exportLocals, exportResult, downloaded, alertShown, domBefore>>

\* ------------------------------------------------------------ ChatBox.jsx
\* what the user types: blanks only, or a message
InputTexts == {" ", "hi"}

trim(s) == IF s = " " THEN "" ELSE s

\* extractInfo(conversationText, ['预算', '万', '元']): '' when no keyword
\* matches, else the text behind the keyword: a number ("5000"), or a number
\* behind other characters ("MOP5000", "约5000")
ExtractedBudgets ==
    {EmptyStr} \cup {Plain(b) : b \in 0..MaxBudget} \cup {Mop(b) : b \in 1..MaxBudget}

\* the contents generateQuotation's request can come back with
GenerationContents ==
    { BadJson,
      RawReply("Q1", "", "Roof", <<ReplyItem(1, 1, 1)>>, Plain(1)),
      RawReply("Q1", "ACME", "Roof", <<ReplyItem(1, 1, 1)>>, EmptyStr),
      RawReply("Q1", "ACME", "Roof", <<>>, Plain(1)) } \cup
    { RawReply("Q1", "ACME", "Roof", <<ReplyItem(1, t, t)>>, Plain(t)) : t \in 1..MaxTotal }

InFlight == {i \in 1..Len(sends) : sends[i].pc \in {"chat", "generate"}}

\* onChange of the input: setInputValue(e.target.value)
handleInputChange(value) ==
    /\ inputValue' = value
    /\ lastGen' = Null
    /\ lastRequest' = Null
    /\ UNCHANGED <<messages, isLoading, sends>>

\* handleSend up to its await of sendMessageToAI
handleSend ==
    IF trim(inputValue) = ""
    THEN /\ lastGen' = Null
         /\ lastRequest' = Null
         /\ UNCHANGED <<messages, inputValue, isLoading, sends>>
    ELSE /\ Len(sends) < MaxSends
         /\ messages' = Append(messages, "user")
         /\ inputValue' = ""
         /\ isLoading' = TRUE
         /\ sends' = Append(sends, [pc |-> "chat", chat |-> 1, generate |-> 0])
         /\ lastGen' = Null
         /\ lastRequest' = Null

\* the send button: disabled={isLoading}, onClick={handleSend}
handleSendClick ==
    /\ ~isLoading
    /\ handleSend

\* handleKeyPress: Enter without Shift calls handleSend
handleKeyPress == handleSend

\* a handleSend that sends the request once more when it failed
handleSend_Catch_Retries(i) ==
    /\ sends[i].pc = "chat"
    /\ lastRequest' = [send |-> i, kind |-> "chat", outcome |-> "failed"]
    /\ lastGen' = Null
    /\ IF sends[i].chat < 2
       THEN /\ sends' = [sends EXCEPT ![i].chat = @ + 1]
            /\ UNCHANGED <<messages, inputValue, isLoading>>
       ELSE /\ messages' = Append(messages, "error")
            /\ isLoading' = FALSE
            /\ sends' = [sends EXCEPT ![i].pc = "done"]
            /\ UNCHANGED inputValue

\* a handleSend whose failure path does not clear the loading state
handleSend_Catch_NoFinally(i) ==
    /\ sends[i].pc = "chat"
    /\ lastRequest' = [send |-> i, kind |-> "chat", outcome |-> "failed"]
    /\ messages' = Append(messages, "error")
    /\ sends' = [sends EXCEPT ![i].pc = "done"]
    /\ lastGen' = Null
    /\ UNCHANGED <<inputValue, isLoading>>

\* handleSend: sendMessageToAI throws; catch appends the error message,
\* finally setIsLoading(false)
handleSend_Catch(i) ==
    /\ sends[i].pc = "chat"
    /\ lastRequest' = [send |-> i, kind |-> "chat", outcome |-> "failed"]
    /\ messages' = Append(messages, "error")
    /\ isLoading' = FALSE
    /\ sends' = [sends EXCEPT ![i].pc = "done"]
    /\ lastGen' = Null
    /\ UNCHANGED inputValue

\* handleSend: the reply names neither '信息已收集完成' nor '生成报价单'
handleSend_Reply(i) ==
    /\ sends[i].pc = "chat"
    /\ lastRequest' = [send |-> i, kind |-> "chat", outcome |-> "reply"]
    /\ messages' = Append(messages, "assistant")
    /\ isLoading' = FALSE
    /\ sends' = [sends EXCEPT ![i].pc = "done"]
    /\ lastGen' = Null
    /\ UNCHANGED inputValue

\* handleSend: the reply names one of them; handleGenerateQuotation runs
\* generateQuotation up to its await of sendMessageToAI
handleSend_ReplyGenerates(i) ==
    /\ sends[i].pc = "chat"
    /\ lastRequest' = [send |-> i, kind |-> "chat", outcome |-> "reply"]
    /\ messages' = Append(messages, "assistant")
    /\ sends' = [sends EXCEPT ![i].pc = "generate", ![i].generate = @ + 1]
    /\ lastGen' = Null
    /\ UNCHANGED <<inputValue, isLoading>>

\* handleGenerateQuotation: sendMessageToAI throws inside generateQuotation;
\* catch appends the failure message; handleSend's finally
handleGenerateQuotation_RequestFails(i) ==
    /\ sends[i].pc = "generate"
    /\ lastRequest' = [send |-> i, kind |-> "generate", outcome |-> "failed"]
    /\ lastGen' = [budget |-> EmptyStr, reply |-> Null, result |-> Thrown("request")]
    /\ messages' = Append(messages, "generationFailed")
    /\ isLoading' = FALSE
    /\ sends' = [sends EXCEPT ![i].pc = "done"]
    /\ UNCHANGED inputValue
    /\ UNCHANGED sheetVars

\* handleGenerateQuotation: generateQuotation gets the AI's text and checks
\* it against projectInfo.budget, the text extractInfo found in the user's
\* messages (the model draws it where it is first read); on a result
\* onQuotationGenerated(quotationData) and the success message, on a throw the
\* failure message; handleSend's finally
handleGenerateQuotation(i, budgetText, raw) ==
    /\ sends[i].pc = "generate"
    /\ lastRequest' = [send |-> i, kind |-> "generate", outcome |-> "reply"]
    /\ LET result == generateQuotation(budgetText, raw)
       IN  /\ lastGen' = [budget |-> budgetText, reply |-> raw, result |-> result]
           /\ IF result.ok
              THEN /\ handleQuotationGenerated(result.data, MaxTenths)
                   /\ messages' = Append(messages, "generated")
              ELSE /\ messages' = Append(messages, "generationFailed")
                   /\ UNCHANGED sheetVars
    /\ isLoading' = FALSE
    /\ sends' = [sends EXCEPT ![i].pc = "done"]
    /\ UNCHANGED inputValue

\* --------------------------------------------------- backend: job creation
CompanyIds == {1, 2}
JobTypes == {"DESIGN", "INSPECTION"}
Workers == {1, 2}

IdleRequest == [pc |-> "idle", company_id |-> 0, job_no |-> Null]

\* prefix JCP for DESIGN jobs, JICP for INSPECTION jobs
TypePrefix(job_type) == IF job_type = "DESIGN" THEN "JCP" ELSE "JICP"

\* _generate_job_number(job_type, company_id, index):
\* {TYPE-PREFIX}-{COMPANY-CODE}-{YY}-{MM}-{INDEX} with the caller's index
generate_job_number(job_type, company_id, index, yymm) ==
    [prefix |-> TypePrefix(job_type), company |-> company_id, yymm |-> yymm, index |-> index]

\* the controller's call of service.create_job: company_id, title, job_type
\* and status are passed on, request.index is not, so index takes its default
ControllerIndex(request_index) == 1

\* POST /jobs up to the service's step 1: job_no = _generate_job_number(...)
create_job(w, company_id, job_type, request_index) ==
    /\ jobRequests[w].pc = "idle"
    /\ Len(jobs) + Cardinality({v \in Workers : jobRequests[v].pc # "idle"}) < MaxJobs
    /\ jobRequests' = [jobRequests EXCEPT ![w] =
            [pc |-> "generated", company_id |-> company_id,
             job_no |-> generate_job_number(job_type, company_id,
                                            ControllerIndex(request_index), month)]]
    /\ UNCHANGED <<jobs, month>>

\* the service's steps 2 to 4: the row is built, session.add, flush, refresh
create_job_Persist(w) ==
    /\ jobRequests[w].pc = "generated"
    /\ jobs' = Append(jobs, [id |-> Len(jobs) + 1,
                             company_id |-> jobRequests[w].company_id,
                             job_no |-> jobRequests[w].job_no])
    /\ jobRequests' = [jobRequests EXCEPT ![w] = IdleRequest]
    /\ UNCHANGED month

\* ------------------------------------------------------ main flow service
\* generateSessionId: session-<time>-<random>
SessionIds == 1..MaxSessionId

\* what a request comes back with: fetch rejects, a status outside 2xx, or
\* the orchestrator's {status, result}, whose result has a message or not
FlowResponses ==
    { [kind |-> "rejected", status |-> "", hasMessage |-> FALSE],
      [kind |-> "http", status |-> "", hasMessage |-> FALSE] } \cup
    { [kind |-> "json", status |-> st, hasMessage |-> m] :
        st \in {"success", "interrupt", "fail", "unknown"}, m \in BOOLEAN }

FlowThrown ==
    [thrown |-> TRUE, success |-> FALSE, needsHumanFeedback |-> FALSE, message |-> ""]

FlowReturned(needsHumanFeedback, message) ==
    [thrown |-> FALSE, success |-> TRUE, needsHumanFeedback |-> needsHumanFeedback,
     message |-> message]

\* a callMainFlow that treats an interrupt as a finished run
callMainFlow_InterruptDone(response) ==
    IF response.kind # "json" THEN FlowThrown
    ELSE IF response.status \in {"success", "interrupt"}
         THEN FlowReturned(FALSE, IF response.hasMessage THEN "result.message" ELSE "result")
    ELSE FlowThrown

\* callMainFlow after its fetch: !response.ok throws; data.status 'success',
\* 'interrupt', 'fail', anything else
callMainFlow(response) ==
    IF response.kind # "json" THEN FlowThrown
    ELSE IF response.status = "success"
         THEN FlowReturned(FALSE, IF response.hasMessage THEN "result.message" ELSE "result")
    ELSE IF response.status = "interrupt"
         THEN FlowReturned(TRUE, IF response.hasMessage THEN "result.message" ELSE "default")
    ELSE FlowThrown

\* sendHumanFeedback after its fetch: !response.ok throws; every parsed reply
\* returns success
sendHumanFeedback(response) ==
    IF response.kind # "json" THEN FlowThrown
    ELSE FlowReturned(FALSE, IF response.hasMessage THEN "result.message" ELSE "default")

\* resetSession: currentSessionId = generateSessionId()
resetSession(id) ==
    /\ resets < MaxResets
    /\ currentSessionId' = id
    /\ sessionUse' = {}
    /\ resets' = resets + 1
    /\ UNCHANGED <<flowRequest, flowResult>>

getSessionId == currentSessionId

\* a request that is sent with a session id of its own
FlowRequest_OwnSession(call, id) ==
    /\ flowRequest = Null
    /\ flowRequest' = [call |-> call, session_id |-> id]
    /\ sessionUse' = sessionUse \cup {id}
    /\ UNCHANGED <<currentSessionId, flowResult, resets>>

\* callMainFlow and sendHumanFeedback up to the await of fetch: the body is
\* {message, session_id: currentSessionId}
FlowRequest(call, id) ==
    /\ flowRequest = Null
    /\ flowRequest' = [call |-> call, session_id |-> currentSessionId]
    /\ sessionUse' = sessionUse \cup {currentSessionId}
    /\ UNCHANGED <<currentSessionId, flowResult, resets>>

\* the response of the request in flight arrives
FlowResponse(response) ==
    /\ flowRequest # Null
    /\ flowResult' = [call |-> flowRequest.call,
                      response |-> response,
                      result |-> IF flowRequest.call = "callMainFlow"
                                 THEN callMainFlow(response)
                                 ELSE sendHumanFeedback(response)]
    /\ flowRequest' = Null
    /\ UNCHANGED <<currentSessionId, sessionUse, resets>>

\* ------------------------------------------------------ the local store
\* Texts are sequences of characters; "A" is the capital of "a", and "b" has
\* no capital among the characters.
StoreChars == {"a", "A", "b"}

\* a field of a quotation: a string, or undefined
Field(text) == [defined |-> TRUE, text |-> text]
Undefined == [defined |-> FALSE, text |-> <<>>]

\* String.prototype.toLowerCase
toLowerCase(s) == [i \in 1..Len(s) |-> IF s[i] = "A" THEN "a" ELSE s[i]]

\* String.prototype.includes
includes(s, t) == \E k \in 0..(Len(s) - Len(t)) : SubSeq(s, k + 1, k + Len(t)) = t

\* Number.prototype.toString: the decimal digits
RECURSIVE toString(_)
toString(n) == IF n < 10 THEN <<n>> ELSE Append(toString(n \div 10), n % 10)

\* the quotations handed to saveQuotation
StoreInputs ==
    { [quotationNumber |-> Field(<<"A", "b">>), clientName |-> Undefined,
       projectName |-> Undefined],
      [quotationNumber |-> Undefined, clientName |-> Field(<<"b", "a">>),
       projectName |-> Field(<<>>)],
      [quotationNumber |-> Field(<<"b">>), clientName |-> Field(<<"b">>),
       projectName |-> Field(<<"b", "b">>)] }

\* the updates handed to updateQuotation
StoreUpdates == { [clientName |-> Field(<<"A">>)] }

StoreIds == { toString(t) : t \in 0..MaxClock }
SearchTerms == UNION { [1..n -> StoreChars] : n \in 0..MaxTermLen }

\* {...a, ...b}: the fields of b over those of a
Spread(a, b) ==
    [f \in DOMAIN a \cup DOMAIN b |-> IF f \in DOMAIN b THEN b[f] ELSE a[f]]

\* getQuotations: the array parsed from the item, [] when there is none
getQuotations == store

\* findIndex: the first index with the id, 0 for -1
findIndex(quotations, id) ==
    IF \E i \in DOMAIN quotations : quotations[i].id = id
    THEN CHOOSE i \in DOMAIN quotations :
            /\ quotations[i].id = id
            /\ \A j \in 1..(i - 1) : quotations[j].id # id
    ELSE 0

\* saveQuotation: the quotation with id Date.now().toString() is pushed;
\* setItem throws when the quota is exceeded, and false is returned.
\* createdAt and updatedAt are left out: no function reads them.
saveQuotation(quotation, setItemThrows) ==
    /\ Len(store) < MaxStored
    /\ LET newQuotation == Spread(quotation, [id |-> toString(now)])
           quotations == Append(getQuotations, newQuotation)
       IN  /\ store' = IF setItemThrows THEN store ELSE quotations
           /\ storeResult' = [op |-> "saveQuotation", arg |-> toString(now),
                              value |-> ~setItemThrows]
    /\ UNCHANGED now

\* getQuotationById: find(q => q.id === id) || null
getQuotationById(id) ==
    /\ storeResult' = [op |-> "getQuotationById", arg |-> id,
                       value |-> IF findIndex(getQuotations, id) = 0 THEN Null
                                 ELSE getQuotations[findIndex(getQuotations, id)]]
    /\ UNCHANGED <<store, now>>

\* updateQuotation: the first quotation with the id gets the updates
updateQuotation(id, updates, setItemThrows) ==
    /\ LET quotations == getQuotations
           index == findIndex(quotations, id)
       IN  IF index # 0
           THEN /\ store' = IF setItemThrows THEN store
                            ELSE [quotations EXCEPT ![index] = Spread(@, updates)]
                /\ storeResult' = [op |-> "updateQuotation", arg |-> id,
                                   value |-> ~setItemThrows]
           ELSE /\ store' = store
                /\ storeResult' = [op |-> "updateQuotation", arg |-> id, value |-> FALSE]
    /\ UNCHANGED now

\* deleteQuotation: filter(q => q.id !== id) is stored
deleteQuotation(id, setItemThrows) ==
    /\ LET filtered == SelectSeq(getQuotations, LAMBDA q : q.id # id)
       IN  /\ store' = IF setItemThrows THEN store ELSE filtered
           /\ storeResult' = [op |-> "deleteQuotation", arg |-> id,
                              value |-> ~setItemThrows]
    /\ UNCHANGED now

\* a search that compares the term as it was typed
searchQuotations_TermAsTyped(searchTerm) ==
    /\ LET term == searchTerm
           Has(field) == field.defined /\ includes(toLowerCase(field.text), term)
       IN  storeResult' =
               [op |-> "searchQuotations", arg |-> searchTerm,
                value |-> SelectSeq(getQuotations,
                              LAMBDA q : \/ Has(q.quotationNumber)
                                         \/ Has(q.clientName)
                                         \/ Has(q.projectName))]
    /\ UNCHANGED <<store, now>>

\* searchQuotations: the quotations with a field whose lower case includes
\* the lower case of the term; field?.toLowerCase() of an undefined field
\* is undefined
searchQuotations(searchTerm) ==
    /\ LET term == toLowerCase(searchTerm)
           Has(field) == field.defined /\ includes(toLowerCase(field.text), term)
       IN  storeResult' =
               [op |-> "searchQuotations", arg |-> searchTerm,
                value |-> SelectSeq(getQuotations,
                              LAMBDA q : \/ Has(q.quotationNumber)
                                         \/ Has(q.clientName)
                                         \/ Has(q.projectName))]
    /\ UNCHANGED <<store, now>>

\* -------------------------------------------------- the signature modal
\* An image is the grey levels of its pixels (red = green = blue); a file
\* that is no image data has none and never fires onload.
SignatureImages ==
    { [decodable |-> TRUE, pixels |-> <<0>>],
      [decodable |-> TRUE, pixels |-> <<221, 220>>],
      [decodable |-> FALSE, pixels |-> <<>>] }

FileTypes == {"image/png", "image/jpeg", "image/gif"}
validTypes == {"image/png", "image/jpeg", "image/jpg"}
TwoMB == 2 * 1024 * 1024
FileSizes == {TwoMB, TwoMB + 1}
Files == [type : FileTypes, size : FileSizes, image : SignatureImages]

\* a value of twice x2 stored into a Uint8ClampedArray: clamped to 0..255,
\* halves rounded to the even neighbour
Uint8Clamped(x2) ==
    LET q == x2 \div 2
        r == IF x2 % 2 = 0 THEN q ELSE IF q % 2 = 0 THEN q ELSE q + 1
    IN  IF r > 255 THEN 255 ELSE IF r < 0 THEN 0 ELSE r

\* removeBackgroundSimple: brightness over 220 becomes transparent, the
\* rest gets alpha min(255, (255 - brightness) * 1.5)
removeBackgroundSimple(pixels) ==
    [by |-> "simple", source |-> pixels,
     alpha |-> [i \in 1..Len(pixels) |->
                  LET brightness == (pixels[i] + pixels[i] + pixels[i]) \div 3
                      threshold == 220
                  IN  IF brightness > threshold THEN 0
                      ELSE LET darkness == 255 - brightness
                           IN  Uint8Clamped(IF darkness * 3 < 510
                                            THEN darkness * 3 ELSE 510)]]

\* alert(message), by the case the message stands for
Alert(message) == [alert |-> message]

\* the data URL of the blob removeBackgroundLib resolves with
removeBackgroundLib(pixels) == [by |-> "ai", source |-> pixels]

\* the SignatureCanvas is rendered while the modal is open on the draw tab;
\* a canvas rendered anew is blank
Rendered(open, tab, before) ==
    IF open /\ tab = "draw" THEN (IF before = "none" THEN "blank" ELSE before)
    ELSE "none"

\* QuotationSheet.handleOpenSignature: setSignatureModal({isOpen: true, ...})
handleOpenSignature ==
    /\ ~isOpen
    /\ isOpen' = TRUE
    /\ canvas' = Rendered(TRUE, activeTab, canvas)
    /\ sigAlert' = Null
    /\ lastUpload' = Null
    /\ passed' = Null
    /\ UNCHANGED <<activeTab, uploadedImage, isProcessing, isEmpty, uploads>>

\* handleTabChange: setActiveTab(tab)
handleTabChange(tab) ==
    /\ isOpen
    /\ activeTab' = tab
    /\ canvas' = Rendered(TRUE, tab, canvas)
    /\ sigAlert' = Null
    /\ lastUpload' = Null
    /\ passed' = Null
    /\ UNCHANGED <<isOpen, uploadedImage, isProcessing, isEmpty, uploads>>

\* handleCanvasEnd after a stroke: setIsEmpty(sigCanvas.current.isEmpty())
handleCanvasEnd ==
    /\ isOpen
    /\ canvas # "none"
    /\ canvas' = "drawn"
    /\ isEmpty' = FALSE
    /\ sigAlert' = Null
    /\ lastUpload' = Null
    /\ passed' = Null
    /\ UNCHANGED <<isOpen, activeTab, uploadedImage, isProcessing, uploads>>

\* handleClear: the canvas is cleared on the draw tab, the uploaded image
\* is dropped on the upload tab
handleClear ==
    /\ isOpen
    /\ IF activeTab = "draw"
       THEN /\ canvas' = "blank"
            /\ isEmpty' = TRUE
            /\ UNCHANGED uploadedImage
       ELSE /\ uploadedImage' = Null
            /\ UNCHANGED <<canvas, isEmpty>>
    /\ sigAlert' = Null
    /\ lastUpload' = Null
    /\ passed' = Null
    /\ UNCHANGED <<isOpen, activeTab, isProcessing, uploads>>

\* handleSave: alert and return when there is nothing to save; otherwise
\* onSave({signature, date}), reset of uploadedImage and activeTab, clear of
\* the canvas, onClose()
handleSave ==
    /\ isOpen
    /\ IF activeTab = "draw" /\ isEmpty
       THEN /\ sigAlert' = Alert("draw first")
            /\ passed' = Null
            /\ UNCHANGED <<isOpen, activeTab, uploadedImage, canvas>>
       ELSE IF activeTab # "draw" /\ uploadedImage = Null
       THEN /\ sigAlert' = Alert("upload first")
            /\ passed' = Null
            /\ UNCHANGED <<isOpen, activeTab, uploadedImage, canvas>>
       ELSE /\ passed' = [signature |-> IF activeTab = "draw"
                                         THEN [by |-> "canvas", content |-> canvas]
                                         ELSE uploadedImage]
            /\ uploadedImage' = Null
            /\ activeTab' = "draw"
            /\ isOpen' = FALSE
            /\ canvas' = "none"
            /\ sigAlert' = Null
    /\ lastUpload' = Null
    /\ UNCHANGED <<isProcessing, isEmpty, uploads>>

\* handleClose: reset of uploadedImage and activeTab, clear of the canvas,
\* onClose()
handleClose ==
    /\ isOpen
    /\ uploadedImage' = Null
    /\ activeTab' = "draw"
    /\ isOpen' = FALSE
    /\ canvas' = "none"
    /\ sigAlert' = Null
    /\ lastUpload' = Null
    /\ passed' = Null
    /\ UNCHANGED <<isProcessing, isEmpty, uploads>>

\* handleFileUpload up to reader.readAsDataURL: the area that opens the file
\* dialog is rendered on the upload tab while nothing is processed or held
handleFileUpload(file) ==
    /\ isOpen
    /\ activeTab = "upload"
    /\ ~isProcessing
    /\ uploadedImage = Null
    /\ IF file = Null
       THEN /\ sigAlert' = Null
            /\ UNCHANGED uploads
       ELSE IF file.type \notin validTypes
       THEN /\ sigAlert' = Alert("type")
            /\ UNCHANGED uploads
       ELSE IF file.size > 2 * 1024 * 1024
       THEN /\ sigAlert' = Alert("size")
            /\ UNCHANGED uploads
       ELSE /\ Len(uploads) < MaxUploads
            /\ sigAlert' = Null
            /\ uploads' = Append(uploads, [pc |-> "reader", image |-> file.image,
                                            aiFailed |-> FALSE])
    /\ lastUpload' = Null
    /\ passed' = Null
    /\ UNCHANGED <<isOpen, activeTab, uploadedImage, isProcessing, isEmpty, canvas>>

\* reader.onload: setIsProcessing(true), removeBackgroundAI up to the await
\* of img.onload
reader_onload(i) ==
    /\ uploads[i].pc = "reader"
    /\ isProcessing' = TRUE
    /\ uploads' = [uploads EXCEPT ![i].pc = "img.onload"]
    /\ sigAlert' = Null
    /\ lastUpload' = Null
    /\ passed' = Null
    /\ UNCHANGED <<isOpen, activeTab, uploadedImage, isEmpty, canvas>>

\* removeBackgroundAI: img.onload fires, removeBackgroundLib is awaited
removeBackgroundAI_onload(i) ==
    /\ uploads[i].pc = "img.onload"
    /\ uploads[i].image.decodable
    /\ uploads' = [uploads EXCEPT ![i].pc = "removeBackgroundLib"]
    /\ sigAlert' = Null
    /\ lastUpload' = Null
    /\ passed' = Null
    /\ UNCHANGED <<isOpen, activeTab, uploadedImage, isProcessing, isEmpty, canvas>>

\* removeBackgroundAI: removeBackgroundLib resolves, the blob is read
removeBackgroundAI_Blob(i) ==
    /\ uploads[i].pc = "removeBackgroundLib"
    /\ uploads' = [uploads EXCEPT ![i].pc = "reader.onloadend"]
    /\ sigAlert' = Null
    /\ lastUpload' = Null
    /\ passed' = Null
    /\ UNCHANGED <<isOpen, activeTab, uploadedImage, isProcessing, isEmpty, canvas>>

\* handleFileUpload after its await: setUploadedImage(processedImage), and
\* setIsProcessing(false) in finally
handleFileUpload_Processed(i, processedImage) ==
    /\ uploadedImage' = processedImage
    /\ isProcessing' = FALSE
    /\ uploads' = RemoveAt(uploads, i)
    /\ sigAlert' = Null
    /\ lastUpload' = [image |-> uploads[i].image, aiFailed |-> uploads[i].aiFailed,
                      result |-> processedImage]
    /\ passed' = Null
    /\ UNCHANGED <<isOpen, activeTab, isEmpty, canvas>>

\* removeBackgroundAI: the reader of the blob ends, the data URL is returned
removeBackgroundAI_onloadend(i) ==
    /\ uploads[i].pc = "reader.onloadend"
    /\ handleFileUpload_Processed(i, removeBackgroundLib(uploads[i].image.pixels))

\* a removeBackgroundAI whose catch throws the error on
removeBackgroundAI_Catch_Rethrows(i) ==
    /\ uploads[i].pc = "removeBackgroundLib"
    /\ isProcessing' = FALSE
    /\ uploads' = RemoveAt(uploads, i)
    /\ sigAlert' = Alert("processing")
    /\ lastUpload' = [image |-> uploads[i].image, aiFailed |-> TRUE, result |-> Null]
    /\ passed' = Null
    /\ UNCHANGED <<isOpen, activeTab, uploadedImage, isEmpty, canvas>>

\* removeBackgroundAI: removeBackgroundLib rejects; the catch returns
\* removeBackgroundSimple(imageSrc), which awaits img.onload
removeBackgroundAI_Catch(i) ==
    /\ uploads[i].pc = "removeBackgroundLib"
    /\ uploads' = [uploads EXCEPT ![i].pc = "removeBackgroundSimple",
                                  ![i].aiFailed = TRUE]
    /\ sigAlert' = Null
    /\ lastUpload' = Null
    /\ passed' = Null
    /\ UNCHANGED <<isOpen, activeTab, uploadedImage, isProcessing, isEmpty, canvas>>

\* removeBackgroundSimple: img.onload fires, the canvas's data URL is
\* returned
removeBackgroundSimple_onload(i) ==
    /\ uploads[i].pc = "removeBackgroundSimple"
    /\ uploads[i].image.decodable
    /\ handleFileUpload_Processed(i, removeBackgroundSimple(uploads[i].image.pixels))

\* ------------------------------------------------------- the AI service
\* a setting of api.config.js: undefined, the empty string, or a text
ConfigValues == {Undefined, Field(<<>>), Field(<<"a">>), Field(<<"b">>)}

\* !value of a setting
Falsy(value) == ~value.defined \/ Len(value.text) = 0

\* the ways the request of sendMessageToAI ends: fetch rejects (network
\* error or AbortSignal.timeout), a response that is not ok, and the bodies
\* the four formats and no format match
AiResponses == {"rejected", "not ok", "choices", "content array", "message",
                "content string", "unknown"}

AiThrown(error) == [thrown |-> TRUE, value |-> error]
AiReturned(value) == [thrown |-> FALSE, value |-> value]

\* the module is loaded: const API_CONFIG = apiConfig.ai
loadConfig(apiKey, endpoint) ==
    /\ API_CONFIG = Null
    /\ API_CONFIG' = [apiKey |-> apiKey, endpoint |-> endpoint]
    /\ aiResult' = Null
    /\ UNCHANGED <<aiFetch, fetched>>

\* a sendMessageToAI that does not look at the endpoint
sendMessageToAI_NoEndpointCheck(conversation) ==
    /\ API_CONFIG # Null
    /\ aiFetch = Null
    /\ IF Falsy(API_CONFIG.apiKey)
       THEN /\ aiResult' = AiThrown("API Key")
            /\ UNCHANGED <<aiFetch, fetched>>
       ELSE /\ fetched < MaxFetches
            /\ aiFetch' = [endpoint |-> API_CONFIG.endpoint, apiKey |-> API_CONFIG.apiKey,
                        messages |-> conversation]
            /\ fetched' = fetched + 1
            /\ aiResult' = AiReturned("pending")
    /\ UNCHANGED API_CONFIG

\* sendMessageToAI up to the await of fetch: the two checks of the
\* configuration throw before fetch is called; the conversation is given
\* by the number of its messages
sendMessageToAI(conversation) ==
    /\ API_CONFIG # Null
    /\ aiFetch = Null
    /\ IF Falsy(API_CONFIG.apiKey)
       THEN /\ aiResult' = AiThrown("API Key")
            /\ UNCHANGED <<aiFetch, fetched>>
       ELSE IF Falsy(API_CONFIG.endpoint)
       THEN /\ aiResult' = AiThrown("API Endpoint")
            /\ UNCHANGED <<aiFetch, fetched>>
       ELSE /\ fetched < MaxFetches
            /\ aiFetch' = [endpoint |-> API_CONFIG.endpoint, apiKey |-> API_CONFIG.apiKey,
                        messages |-> conversation]
            /\ fetched' = fetched + 1
            /\ aiResult' = AiReturned("pending")
    /\ UNCHANGED API_CONFIG

\* sendMessageToAI after the await of fetch: a rejected fetch and a response
\* that is not ok throw, the four formats return the message, any other
\* body throws
sendMessageToAI_Response(response) ==
    /\ aiFetch # Null
    /\ aiFetch' = Null
    /\ aiResult' = IF response = "rejected" THEN AiThrown("fetch")
                   ELSE IF response = "not ok" THEN AiThrown("request failed")
                   ELSE IF response = "choices" THEN AiReturned("choices[0].message")
                   ELSE IF response = "content array" THEN AiReturned("content texts")
                   ELSE IF response = "message" THEN AiReturned("message")
                   ELSE IF response = "content string" THEN AiReturned("content")
                   ELSE AiThrown("format")
    /\ UNCHANGED <<API_CONFIG, fetched>>

\* ------------------------------------------------------------- payloads
\* Replies of the AI that pass generateQuotation's validation and keep the
\* prompt's rule 6 (the items' totalPrice add up to totalAmount).
Reply(number, company, project, items) ==
    [quotationNumber |-> number, companyName |-> company, projectName |-> project,
     items |-> items,
     totalAmount |-> SumSeq([i \in 1..Len(items) |-> items[i].totalPrice])]

SheetReplies ==
    { Reply("Q1", "ACME", "Roof", its) :
        its \in { <<ReplyItem(2, 2, 4), ReplyItem(1, 1, 1)>>, <<ReplyItem(1, 2, 2)>> } }

ExportReplies ==
    { Reply("Q1", "ACME", "Roof", <<ReplyItem(1, 2, 2)>>),
      Reply("Q2", "acme", "Roof", <<ReplyItem(1, 2, 2)>>) }

RevisionReplies ==
    { Reply(n, c, p, <<ReplyItem(1, 2, 2)>>) :
        n \in QuotationNumbers, c \in ClientNames, p \in ProjectNames }

Init ==
    /\ formData = InitFormData
    /\ previousQuotationRef = [quotationNumber |-> "", clientName |-> "", projectName |-> ""]
    /\ quotationData = Null
    /\ lastSaved = Null
    /\ lastOp = [op |-> "init", index |-> 0, field |-> ""]
    /\ sameRun = 0
    /\ dom = InitDom
    /\ exportPc = "idle"
    /\ exportLocals = InitExportLocals
    /\ exportResult = FALSE
    /\ downloaded = Null
    /\ alertShown = FALSE
    /\ domBefore = InitDom
    /\ messages = <<"assistant">>
    /\ inputValue = ""
    /\ isLoading = FALSE
    /\ sends = <<>>
    /\ lastGen = Null
    /\ lastRequest = Null
    /\ jobs = <<>>
    /\ jobRequests = [w \in Workers |-> IdleRequest]
    /\ month = 1
    /\ parseCase = Null
    /\ currentSessionId = 1
    /\ flowRequest = Null
    /\ flowResult = Null
    /\ sessionUse = {}
    /\ resets = 0
    /\ store = <<>>
    /\ now = 0
    /\ storeResult = Null
    /\ isOpen = FALSE
    /\ activeTab = "draw"
    /\ uploadedImage = Null
    /\ isProcessing = FALSE
    /\ isEmpty = TRUE
    /\ canvas = "none"
    /\ uploads = <<>>
    /\ sigAlert = Null
    /\ lastUpload = Null
    /\ passed = Null
    /\ API_CONFIG = Null
    /\ aiFetch = Null
    /\ fetched = 0
    /\ aiResult = Null
    /\ edits = 0

\* ------------------------------------------------- the quotation sheet
PayloadArrives == \E reply \in SheetReplies :
    /\ handleQuotationGenerated(FinalData(reply), SheetTenths)
    /\ UNCHANGED notSheetVars
EditQuantity == \E index \in 1..MaxItems, q \in 0..MaxQty :
    /\ handleItemChange(index, "quantity", q)
    /\ UNCHANGED notSheetVars
EditUnitPrice == \E index \in 1..MaxItems, p \in 0..MaxPrice :
    /\ handleItemChange(index, "unitPrice", Plain(p))
    /\ UNCHANGED notSheetVars
EditDescription == \E index \in 1..MaxItems, d \in Descriptions :
    /\ handleItemChange(index, "project", d)
    /\ UNCHANGED notSheetVars
AddItem == handleAddItem /\ UNCHANGED notSheetVars
DeleteItem == \E index \in 1..MaxItems :
    /\ handleDeleteItem(index)
    /\ UNCHANGED notSheetVars

Next ==
    \/ PayloadArrives
    \/ EditQuantity
    \/ EditUnitPrice
    \/ EditDescription
    \/ AddItem
    \/ DeleteItem

Spec == Init /\ [][Next]_vars

\* --------------------------------------------- the revision numbering
RevisionPayloadArrives == \E reply \in RevisionReplies :
    /\ handleQuotationGenerated(FinalData(reply), MaxTenths)
    /\ UNCHANGED notSheetVars
EditClientName == \E c \in ClientNames :
    /\ handleHeaderChange("clientName", c)
    /\ UNCHANGED notSheetVars
EditProjectName == \E p \in ProjectNames :
    /\ handleHeaderChange("projectName", p)
    /\ UNCHANGED notSheetVars

NextRevision ==
    \/ RevisionPayloadArrives
    \/ EditClientName
    \/ EditProjectName

SpecRevision == Init /\ [][NextRevision]_vars

\* ------------------------------------------- the hand edits of the sheet
\* one value for each field of an item that has an input
ItemEdits ==
    { [field |-> "sequence", value |-> 2],
      [field |-> "project", value |-> "survey"],
      [field |-> "quantity", value |-> 2],
      [field |-> "unitPrice", value |-> Plain(1)] }

\* the state the sheet's handlers do not touch
notEditVars == <<exportVars, chatVars, jobVars, parseCase, flowVars, storeVars, sigVars, aiVars>>

\* one more hand edit
HandEdit ==
    /\ edits < MaxEdits
    /\ edits' = edits + 1
    /\ UNCHANGED notEditVars

EditsPayloadArrives == \E reply \in ExportReplies :
    /\ handleQuotationGenerated(FinalData(reply), SheetTenths)
    /\ edits' = 0
    /\ UNCHANGED notEditVars
EditItem == \E index \in 1..MaxItems, edit \in ItemEdits :
    /\ handleItemChange(index, edit.field, edit.value)
    /\ HandEdit
EditsAddItem == handleAddItem /\ HandEdit
EditsDeleteItem == \E index \in 1..MaxItems :
    /\ handleDeleteItem(index)
    /\ HandEdit
EditHeader == \E field \in {"clientName", "projectName"} :
    /\ handleHeaderChange(field, "typed")
    /\ HandEdit
SaveSignature == \E type \in SignatureTypes, payload \in SignaturePayloads :
    /\ handleSaveSignature(type, payload)
    /\ HandEdit
ClearSignature == \E type \in SignatureTypes :
    /\ handleClearSignature(type)
    /\ HandEdit

NextEdits ==
    \/ EditsPayloadArrives
    \/ EditItem
    \/ EditsAddItem
    \/ EditsDeleteItem
    \/ EditHeader
    \/ SaveSignature
    \/ ClearSignature

SpecEdits == Init /\ [][NextEdits]_vars

\* ------------------------------------------------------- the PDF export
\* The user's actions between exports; while an export runs (about a second)
\* the model takes no input.
ExportPayloadArrives == \E reply \in ExportReplies :
    /\ exportPc = "idle"
    /\ handleQuotationGenerated(FinalData(reply), SheetTenths)
    /\ UNCHANGED notSheetVars
ExportEditClientName == exportPc = "idle" /\ EditClientName

NextExport ==
    \/ ExportPayloadArrives
    \/ ExportEditClientName
    \/ handleDownloadPDF_NoData
    \/ handleDownloadPDF
    \/ ExportReplaceInputs
    \/ ExportImport
    \/ ExportImportThrows
    \/ ExportRender
    \/ ExportRenderThrows
    \/ ExportFinish

SpecExport == Init /\ [][NextExport]_vars

\* --------------------------------------------------------- the chat box
TypeInput == \E value \in InputTexts :
    /\ handleInputChange(value)
    /\ UNCHANGED <<sheetVars, exportVars, jobVars, restVars>>
ClickSend ==
    /\ handleSendClick
    /\ UNCHANGED <<sheetVars, exportVars, jobVars, restVars>>
PressEnter ==
    /\ handleKeyPress
    /\ UNCHANGED <<sheetVars, exportVars, jobVars, restVars>>
ChatRequestFails == \E i \in 1..Len(sends) :
    /\ handleSend_Catch(i)
    /\ UNCHANGED <<sheetVars, exportVars, jobVars, restVars>>
ChatReplyArrives == \E i \in 1..Len(sends) :
    /\ handleSend_Reply(i)
    /\ UNCHANGED <<sheetVars, exportVars, jobVars, restVars>>
ChatReplyGenerates == \E i \in 1..Len(sends) :
    /\ handleSend_ReplyGenerates(i)
    /\ UNCHANGED <<sheetVars, exportVars, jobVars, restVars>>
GenerationRequestFails == \E i \in 1..Len(sends) :
    /\ handleGenerateQuotation_RequestFails(i)
    /\ UNCHANGED <<exportVars, jobVars, restVars>>
GenerationReplyArrives ==
    \E i \in 1..Len(sends), budgetText \in ExtractedBudgets, raw \in GenerationContents :
        /\ handleGenerateQuotation(i, budgetText, raw)
    /\ UNCHANGED <<exportVars, jobVars, restVars>>

NextChat ==
    \/ TypeInput
    \/ ClickSend
    \/ PressEnter
    \/ ChatRequestFails
    \/ ChatReplyArrives
    \/ ChatReplyGenerates
    \/ GenerationRequestFails
    \/ GenerationReplyArrives

SpecChat == Init /\ [][NextChat]_vars

\* Every request ends: fetch is given AbortSignal.timeout(API_CONFIG.timeout),
\* so sendMessageToAI returns or throws, and the continuation of the await
\* then runs.
RequestEnds(i) ==
    /\ i \in 1..Len(sends)
    /\ \/ handleSend_Catch(i) /\ UNCHANGED <<sheetVars, exportVars, jobVars, restVars>>
       \/ handleSend_Reply(i) /\ UNCHANGED <<sheetVars, exportVars, jobVars, restVars>>
       \/ handleSend_ReplyGenerates(i) /\ UNCHANGED <<sheetVars, exportVars, jobVars, restVars>>
       \/ handleGenerateQuotation_RequestFails(i) /\ UNCHANGED <<exportVars, jobVars, restVars>>
       \/ \E budgetText \in ExtractedBudgets, raw \in GenerationContents :
            handleGenerateQuotation(i, budgetText, raw) /\ UNCHANGED <<exportVars, jobVars, restVars>>

SpecChatLive == Init /\ [][NextChat]_vars /\ \A i \in 1..MaxSends : WF_vars(RequestEnds(i))

\* ------------------------------------------------------ the job creation
CreateJobRequest ==
    \E w \in Workers, company_id \in CompanyIds, job_type \in JobTypes, index \in 1..MaxIndex :
        /\ create_job(w, company_id, job_type, index)
        /\ UNCHANGED <<sheetVars, exportVars, chatVars, restVars>>
CreateJobPersists == \E w \in Workers :
    /\ create_job_Persist(w)
    /\ UNCHANGED <<sheetVars, exportVars, chatVars, restVars>>
MonthPasses ==
    /\ month < MaxMonth
    /\ month' = month + 1
    /\ UNCHANGED <<jobs, jobRequests>>
    /\ UNCHANGED <<sheetVars, exportVars, chatVars, restVars>>

NextJobs ==
    \/ CreateJobRequest
    \/ CreateJobPersists
    \/ MonthPasses

SpecJobs == Init /\ [][NextJobs]_vars

\* ------------------------------------------------- the fenced replies
FencedReplyArrives ==
    \E lang \in {<<>>, <<"json">>}, break \in {<<>>, <<" ">>}, body \in Texts(MaxBody) :
        /\ parseCase = Null
        /\ parseReply(lang, break, body)
        /\ UNCHANGED <<sheetVars, exportVars, chatVars, jobVars, flowVars, storeVars, sigVars, aiVars, edits>>

NextFences == FencedReplyArrives

SpecFences == Init /\ [][NextFences]_vars

\* --------------------------------------------------- the main flow calls
ResetSession == \E id \in SessionIds :
    /\ resetSession(id)
    /\ UNCHANGED <<sheetVars, exportVars, chatVars, jobVars, parseCase, storeVars, sigVars, aiVars, edits>>
CallMainFlow == \E id \in SessionIds :
    /\ FlowRequest("callMainFlow", id)
    /\ UNCHANGED <<sheetVars, exportVars, chatVars, jobVars, parseCase, storeVars, sigVars, aiVars, edits>>
SendHumanFeedback == \E id \in SessionIds :
    /\ FlowRequest("sendHumanFeedback", id)
    /\ UNCHANGED <<sheetVars, exportVars, chatVars, jobVars, parseCase, storeVars, sigVars, aiVars, edits>>
FlowResponseArrives == \E response \in FlowResponses :
    /\ FlowResponse(response)
    /\ UNCHANGED <<sheetVars, exportVars, chatVars, jobVars, parseCase, storeVars, sigVars, aiVars, edits>>

NextFlow ==
    \/ ResetSession
    \/ CallMainFlow
    \/ SendHumanFeedback
    \/ FlowResponseArrives

SpecFlow == Init /\ [][NextFlow]_vars

\* ------------------------------------------------------ the local store
notStoreVars == <<sheetVars, exportVars, chatVars, jobVars, parseCase, flowVars, sigVars, aiVars,
                  edits>>

ClockTicks ==
    /\ now < MaxClock
    /\ now' = now + 1
    /\ storeResult' = Null
    /\ UNCHANGED <<store, notStoreVars>>
SaveQuotation == \E quotation \in StoreInputs, setItemThrows \in BOOLEAN :
    /\ saveQuotation(quotation, setItemThrows)
    /\ UNCHANGED notStoreVars
GetQuotationById == \E id \in StoreIds :
    /\ getQuotationById(id)
    /\ UNCHANGED notStoreVars
UpdateQuotation == \E id \in StoreIds, updates \in StoreUpdates, setItemThrows \in BOOLEAN :
    /\ updateQuotation(id, updates, setItemThrows)
    /\ UNCHANGED notStoreVars
DeleteQuotation == \E id \in StoreIds, setItemThrows \in BOOLEAN :
    /\ deleteQuotation(id, setItemThrows)
    /\ UNCHANGED notStoreVars
SearchQuotations == \E searchTerm \in SearchTerms :
    /\ searchQuotations(searchTerm)
    /\ UNCHANGED notStoreVars

NextStore ==
    \/ ClockTicks
    \/ SaveQuotation
    \/ GetQuotationById
    \/ UpdateQuotation
    \/ DeleteQuotation
    \/ SearchQuotations

SpecStore == Init /\ [][NextStore]_vars

\* -------------------------------------------------- the signature modal
notSigVars == <<sheetVars, exportVars, chatVars, jobVars, parseCase, flowVars, storeVars, aiVars,
                edits>>

OpenSignature == handleOpenSignature /\ UNCHANGED notSigVars
ChangeTab == \E tab \in {"draw", "upload"} : handleTabChange(tab) /\ UNCHANGED notSigVars
DrawStroke == handleCanvasEnd /\ UNCHANGED notSigVars
ClickClear == handleClear /\ UNCHANGED notSigVars
ClickSave == handleSave /\ UNCHANGED notSigVars
ClickClose == handleClose /\ UNCHANGED notSigVars
ChooseFile == \E file \in Files \cup {Null} : handleFileUpload(file) /\ UNCHANGED notSigVars
FileRead == \E i \in DOMAIN uploads : reader_onload(i) /\ UNCHANGED notSigVars
ImageLoaded == \E i \in DOMAIN uploads : removeBackgroundAI_onload(i) /\ UNCHANGED notSigVars
AiResolves == \E i \in DOMAIN uploads : removeBackgroundAI_Blob(i) /\ UNCHANGED notSigVars
AiRejects == \E i \in DOMAIN uploads : removeBackgroundAI_Catch(i) /\ UNCHANGED notSigVars
BlobRead == \E i \in DOMAIN uploads : removeBackgroundAI_onloadend(i) /\ UNCHANGED notSigVars
SimpleDone == \E i \in DOMAIN uploads : removeBackgroundSimple_onload(i) /\ UNCHANGED notSigVars

NextSignature ==
    \/ OpenSignature
    \/ ChangeTab
    \/ DrawStroke
    \/ ClickClear
    \/ ClickSave
    \/ ClickClose
    \/ ChooseFile
    \/ FileRead
    \/ ImageLoaded
    \/ AiResolves
    \/ AiRejects
    \/ BlobRead
    \/ SimpleDone

SpecSignature == Init /\ [][NextSignature]_vars

\* The events an upload waits for are delivered when they are due: the
\* reader's onload, img.onload of an image that can be decoded, the end of
\* removeBackgroundLib, the blob reader's onloadend.
UploadStep ==
    \/ FileRead
    \/ ImageLoaded
    \/ AiResolves
    \/ AiRejects
    \/ BlobRead
    \/ SimpleDone

SpecSignatureLive == Init /\ [][NextSignature]_vars /\ WF_vars(UploadStep)

\* ------------------------------------------------------- the AI service
notAiVars == <<sheetVars, exportVars, chatVars, jobVars, parseCase, flowVars, storeVars,
               sigVars, edits>>

LoadConfig == \E apiKey \in ConfigValues, endpoint \in ConfigValues :
    /\ loadConfig(apiKey, endpoint)
    /\ UNCHANGED notAiVars
SendMessageToAI == \E conversation \in 1..MaxMessages :
    /\ sendMessageToAI(conversation)
    /\ UNCHANGED notAiVars
AiResponseArrives == \E response \in AiResponses :
    /\ sendMessageToAI_Response(response)
    /\ UNCHANGED notAiVars

NextAi ==
    \/ LoadConfig
    \/ SendMessageToAI
    \/ AiResponseArrives

SpecAi == Init /\ [][NextAi]_vars

\* ---------------------------------------------------------------- claims
\* the number a cell shows: extractNumber(value) in the inputs, the text of
\* the total cell
Shown(s) == extractNumber(s).num

ItemProduct(item) == item.quantity * Shown(item.unitPrice)

SumProducts(items) == SumSeq([i \in 1..Len(items) |-> ItemProduct(items[i])])

SumShownTotals(items) == SumSeq([i \in 1..Len(items) |-> Shown(items[i].totalPrice)])

\* C1: after handleItemChange of a quantity or a unit price, the edited
\* item's line total is quantity x unit price and the grand total is the sum
\* of quantity x unit price over all items, with the currency prefix.
C1_TotalAfterEdit ==
    (lastOp.op = "handleItemChange" /\ lastOp.field \in {"quantity", "unitPrice"}) =>
        /\ Shown(formData.items[lastOp.index].totalPrice)
                = ItemProduct(formData.items[lastOp.index])
        /\ formData.totalAmount = Mop(SumProducts(formData.items))

\* C3: whenever the sheet has an item, the total shown is the sum of the
\* line totals shown.
C3_TotalIsSumOfLines ==
    Len(formData.items) >= 1 =>
        Shown(formData.totalAmount) = SumShownTotals(formData.items)

\* C2: a payload sets the revision to 1.0 when its triple differs from the
\* triple of the payload received before it (or none was), and to the
\* revision shown plus 0.1 otherwise.
C2_RevisionRule ==
    [][lastOp'.op = "data" =>
        formData'.quotationVersion =
            IF quotationData = Null \/ Triple(quotationData') # Triple(quotationData)
            THEN 10
            ELSE formData.quotationVersion + 1]_vars

C2_Witness ==
    /\ lastOp.op = "data"
    /\ formData.quotationVersion = 12
    /\ formData.clientName = "acme"

\* C8: n payloads in a row with the triple of the payload that reset the
\* revision show 1 + n/10, and a payload with another triple shows 1.0 again.
C8_RevisionCounts ==
    quotationData # Null => formData.quotationVersion = 10 + sameRun

C8_Witness ==
    /\ formData.quotationVersion = 20
    /\ sameRun = 10

\* C5: when exportWithLibrary has returned, the document is as it was when
\* it was entered, and a failure has shown an alert.
C5_ExportRestoresDocument ==
    exportPc = "returned" =>
        /\ dom = domBefore
        /\ (~exportResult => alertShown)

\* C9: the file handed to pdf.save is named after the quotation number and
\* the client name the sheet shows when the export starts.
C9_FileNameFromSheet ==
    lastOp.op = "exportStarted" =>
        exportLocals.filename = FileName(formData.quotationNumber, formData.clientName)

\* C10: no step of an export changes the sheet's data or the application's
\* current quotation.
C10_ExportReadOnly ==
    [][exportPc' # exportPc =>
        /\ formData' = formData
        /\ quotationData' = quotationData]_vars

C10_Witness ==
    /\ lastOp.op = "exportFinished"
    /\ exportResult
    /\ downloaded # Null
    /\ formData.clientName # quotationData.clientName

\* C4: when generateQuotation was given a budget text that names the number
\* B > 0 and the AI's reply has the totalAmount T > B, the call throws, the
\* application's quotation and the sheet stay as they were, and the chat
\* shows the failure message.
C4_OverBudgetRejected ==
    [][\A i \in 1..Len(sends) :
        (/\ sends[i].pc = "generate"
         /\ sends'[i].pc = "done"
         /\ lastGen'.reply # Null
         /\ lastGen'.reply.parseable
         /\ lastGen'.reply.totalAmount.kind = "plain"
         /\ lastGen'.budget.kind # "empty"
         /\ lastGen'.budget.num > 0
         /\ lastGen'.reply.totalAmount.num > lastGen'.budget.num)
        => /\ ~lastGen'.result.ok
           /\ quotationData' = quotationData
           /\ formData' = formData
           /\ messages'[Len(messages')] = "generationFailed"]_vars

\* C7: at most one request of the chat box is in flight.
C7_OneRequestInFlight == Cardinality(InFlight) <= 1

\* C6: no two stored jobs have the same job number.
C6_JobNumbersUnique ==
    \A i \in 1..Len(jobs), j \in 1..Len(jobs) :
        i # j => jobs[i].job_no # jobs[j].job_no

\* C11: every edit of the sheet (an item field, an added or deleted item, a
\* header field) hands the sheet's new data to the parent through onSave.
C11_ParentNotified ==
    [][(/\ lastOp'.op \in {"handleItemChange", "handleAddItem", "handleDeleteItem", "header"}
        /\ formData' # formData)
       => lastSaved' = formData']_vars

\* C12: when the AI's text for a quotation is not JSON, lacks companyName,
\* projectName or totalAmount, has no items, or has a total above the budget
\* number read, that step appends exactly one failure message to the chat
\* and leaves the application's quotation and the sheet as they were.
FailingReply(budgetText, raw) ==
    \/ ~raw.parseable
    \/ raw.companyName = ""
    \/ raw.projectName = ""
    \/ raw.totalAmount.kind = "empty"
    \/ raw.items = <<>>
    \/ /\ budgetText.kind = "plain"
       /\ budgetText.num > 0
       /\ raw.totalAmount.num > budgetText.num

C12_GenerationFailureShown ==
    [][\A i \in 1..Len(sends) :
        (/\ sends[i].pc = "generate"
         /\ sends'[i].pc = "done"
         /\ lastGen'.reply # Null
         /\ FailingReply(lastGen'.budget, lastGen'.reply))
        => /\ messages' = Append(messages, "generationFailed")
           /\ quotationData' = quotationData
           /\ formData' = formData
           /\ previousQuotationRef' = previousQuotationRef]_vars

C12_Witness ==
    /\ lastGen # Null
    /\ lastGen.reply # Null
    /\ lastGen.result.error = "noItems"
    /\ quotationData # Null
    /\ messages[Len(messages)] = "generationFailed"

\* C13: every send that awaits a reply, of the chat request or of the
\* generation it triggered, returns, and its return leaves the loading state
\* cleared.
C13_SendReturns ==
    \A i \in 1..MaxSends :
        (i \in InFlight) ~> (i \in 1..Len(sends) /\ sends[i].pc = "done" /\ ~isLoading)

C13_Witness ==
    /\ Len(sends) >= 2
    /\ InFlight = {}
    /\ ~isLoading
    /\ lastGen # Null
    /\ \E k \in 1..Len(messages) : messages[k] = "error"

\* C14: a send issues one chat request and at most one generation request,
\* and a request that failed is not sent again: the step that ends it appends
\* exactly one message, the error message of its kind, and issues no request.
C14_NoRetry ==
    [][/\ \A i \in 1..Len(sends') : sends'[i].chat = 1 /\ sends'[i].generate <= 1
       /\ (lastRequest' # Null /\ lastRequest'.outcome = "failed") =>
            /\ messages' = Append(messages,
                    IF lastRequest'.kind = "chat" THEN "error" ELSE "generationFailed")
            /\ InFlight' = InFlight \ {lastRequest'.send}
            /\ \A i \in 1..Len(sends) :
                    /\ sends'[i].chat = sends[i].chat
                    /\ sends'[i].generate = sends[i].generate]_vars

C14_Witness ==
    /\ lastRequest # Null
    /\ lastRequest.kind = "generate"
    /\ lastRequest.outcome = "failed"
    /\ \E k \in 1..Len(messages) : messages[k] = "error"

\* C15: a JSON object in markdown fences, with or without json, parses to the
\* object that the same text parses to without the fences.
C15_FencesTransparent ==
    parseCase # Null => parseCase.fenced = parseCase.plain

C15_Witness ==
    /\ parseCase # Null
    /\ parseCase.fenced.ok
    /\ parseCase.body = <<"a", Backtick, Backtick, Backtick>>

\* C16: callMainFlow turns the status success into a result with success and
\* without needsHumanFeedback, the status interrupt into a result with
\* success, needsHumanFeedback and the reply's message, and fail or any other
\* status into an error.
C16_StatusMapping ==
    (flowResult # Null /\ flowResult.call = "callMainFlow" /\ flowResult.response.kind = "json") =>
        LET status == flowResult.response.status
            result == flowResult.result
        IN  /\ status = "success" =>
                ~result.thrown /\ result.success /\ ~result.needsHumanFeedback
            /\ status = "interrupt" =>
                /\ ~result.thrown /\ result.success /\ result.needsHumanFeedback
                /\ flowResult.response.hasMessage => result.message = "result.message"
            /\ status \notin {"success", "interrupt"} => result.thrown /\ ~result.success

C16_Witness ==
    /\ flowResult # Null
    /\ flowResult.call = "callMainFlow"
    /\ flowResult.response.status = "interrupt"
    /\ flowResult.result.needsHumanFeedback

\* C17: every request carries the session id getSessionId returns, all
\* requests since the last resetSession carry the same one, and the session id
\* changes only in a resetSession.
C17_OneSessionId ==
    [][/\ sessionUse' \subseteq {currentSessionId'}
       /\ (flowRequest' # Null /\ flowRequest = Null) =>
            flowRequest'.session_id = getSessionId
       /\ currentSessionId' # currentSessionId => resets' = resets + 1]_vars

C17_Witness ==
    /\ resets >= 1
    /\ flowResult # Null
    /\ flowResult.call = "callMainFlow"
    /\ flowResult.response.status = "interrupt"
    /\ flowRequest # Null
    /\ flowRequest.call = "sendHumanFeedback"
    /\ flowRequest.session_id = 2

\* C18: no two quotations of the local store have the same id, so that
\* getQuotationById, updateQuotation and deleteQuotation address one saved
\* quotation each.
C18_UniqueIds ==
    \A i, j \in DOMAIN store : i # j => store[i].id # store[j].id

\* two letters that differ at most in case
SameLetter(a, b) == a = b \/ {a, b} = {"a", "A"}

\* the term is a substring of the field, case-insensitively
SubstringOf(term, field) ==
    /\ field.defined
    /\ \E k \in 0..(Len(field.text) - Len(term)) :
           \A j \in 1..Len(term) : SameLetter(field.text[k + j], term[j])

Matching(term, quotations) ==
    SelectSeq(quotations, LAMBDA q : \/ SubstringOf(term, q.quotationNumber)
                                     \/ SubstringOf(term, q.clientName)
                                     \/ SubstringOf(term, q.projectName))

\* C19: searchQuotations(term) returns the stored quotations for which the
\* term is, case-insensitively, a substring of the quotation number, the
\* client name or the project name, in stored order, and leaves the store
\* as it was.
C19_SearchResult ==
    [][storeResult' # Null /\ storeResult'.op = "searchQuotations"
        => /\ store' = store
           /\ storeResult'.value = Matching(storeResult'.arg, store)]_vars

\* a search with a capital letter in the term found some of the stored
\* quotations and not others
C19_Witness ==
    /\ storeResult # Null
    /\ storeResult.op = "searchQuotations"
    /\ \E j \in DOMAIN storeResult.arg : storeResult.arg[j] = "A"
    /\ 0 < Len(storeResult.value)
    /\ Len(storeResult.value) < Len(store)

\* the result of a brightness threshold: the pixels brighter than 220 are
\* transparent and no others
Thresholded(image) ==
    /\ image # Null
    /\ image.by = "simple"
    /\ \A k \in DOMAIN image.source : (image.alpha[k] = 0) <=> (image.source[k] > 220)

\* C20: an upload whose AI background removal failed ends with the image
\* processed by the brightness threshold in the modal, without an alert.
C20_FallsBack ==
    [][lastUpload' # Null /\ lastUpload'.aiFailed
        => /\ Thresholded(lastUpload'.result)
           /\ lastUpload'.result.source = lastUpload'.image.pixels
           /\ uploadedImage' = lastUpload'.result
           /\ ~isProcessing'
           /\ sigAlert' = Null]_vars

\* an upload whose AI removal failed has ended, and the modal holds an
\* image with a transparent and an opaque pixel
C20_Witness ==
    /\ lastUpload # Null
    /\ lastUpload.aiFailed
    /\ uploadedImage = lastUpload.result
    /\ \E k \in DOMAIN uploadedImage.alpha : uploadedImage.alpha[k] = 0
    /\ \E k \in DOMAIN uploadedImage.alpha : uploadedImage.alpha[k] > 0

\* C21: a signature upload that passed the validation leaves the processing
\* state: whenever the modal is processing, it later is not.
C21_LeavesProcessing == isProcessing ~> ~isProcessing

\* sendMessageToAI is called in this step with a setting missing
CalledUnconfigured ==
    /\ API_CONFIG # Null
    /\ aiFetch = Null
    /\ aiResult' # Null
    /\ Falsy(API_CONFIG.apiKey) \/ Falsy(API_CONFIG.endpoint)

\* C22: a call of sendMessageToAI made while the API key or the endpoint is
\* not configured throws the configuration error of that setting and issues
\* no network request.
C22_ConfigErrorBeforeRequest ==
    [][CalledUnconfigured
        => /\ aiResult'.thrown
           /\ aiResult'.value \in {"API Key", "API Endpoint"}
           /\ (aiResult'.value = "API Key") <=> Falsy(API_CONFIG.apiKey)
           /\ fetched' = fetched
           /\ aiFetch' = Null]_vars

\* sendMessageToAI was called with a key and without an endpoint
C22_Witness ==
    /\ API_CONFIG # Null
    /\ ~Falsy(API_CONFIG.apiKey)
    /\ Falsy(API_CONFIG.endpoint)
    /\ aiResult # Null
    /\ aiResult.thrown
    /\ fetched = 0

\* C23: the modal passes a signature to the sheet only when the canvas of
\* the open modal holds a stroke (draw tab) or an uploaded image is held
\* (upload tab).
C23_NoBlankSignature ==
    [][passed' # Null
        => \/ activeTab = "draw" /\ canvas = "drawn"
           \/ activeTab = "upload" /\ uploadedImage # Null]_vars

\* C24: handleItemChange of a field other than quantity and unit price
\* leaves the line total of every item and the grand total shown as they
\* were.
C24_OtherFieldsKeepTotals ==
    [][lastOp'.op = "handleItemChange" /\ lastOp'.field \notin {"quantity", "unitPrice"}
        => /\ Len(formData'.items) = Len(formData.items)
           /\ \A i \in 1..Len(formData.items) :
                 formData'.items[i].totalPrice = formData.items[i].totalPrice
           /\ Shown(formData'.totalAmount) = Shown(formData.totalAmount)]_vars

\* C25: sendHumanFeedback turns an orchestrator reply with the status fail
\* into an error, not into a result with success.
C25_FeedbackFailRaises ==
    (/\ flowResult # Null
     /\ flowResult.call = "sendHumanFeedback"
     /\ flowResult.response.kind = "json"
     /\ flowResult.response.status = "fail")
        => flowResult.result.thrown /\ ~flowResult.result.success

\* C26: the modal opens with the draw tab selected and without an uploaded
\* image.
C26_OpensClean ==
    [][~isOpen /\ isOpen' => activeTab' = "draw" /\ uploadedImage' = Null]_vars

\* C27: the revision shown changes only in the step in which a payload
\* arrives; the handlers of the hand edits (header fields, item fields, added
\* and deleted items, saved and cleared signatures) leave it as it was.
C27_HandEditsKeepRevision ==
    [][/\ formData'.quotationVersion # formData.quotationVersion => lastOp'.op = "data"
       /\ lastOp'.op # "data" => formData'.quotationVersion = formData.quotationVersion]_vars

\* a signature was saved on a sheet that shows a revision after the first
C27_Witness ==
    /\ lastOp.op = "handleSaveSignature"
    /\ formData.quotationVersion > 10
    /\ formData.managerSignature # Null

====
